---- MODULE Spec2Model ----
(***************************************************************************)
(* Model of mshv-ioctls/src/ioctls/system.rs: the Mshv device session and  *)
(* the partition creation protocol it drives through kernel control calls. *)
(* The kernel is the environment: every open/ioctl may succeed or fail.    *)
(* 64-bit payloads are bit vectors (functions 0..63 -> {0,1}), so that no  *)
(* bit of a u64 is lost to the 32-bit integers of TLC.                     *)
(***************************************************************************)
EXTENDS Integers, Sequences, FiniteSets, TLC

\* ------------------------------------------------------------------ bounds
\* Number of descriptors the kernel hands out before open/create fail (EMFILE).
MaxFd == 4

\* The two callers (threads), each working with its own device session.
Threads == {1, 2}
Fds == 0..(MaxFd - 1)
NoFd == -1
Archs == {"x86_64", "aarch64"}
VmTypes == {"Normal", "Snp"}
Errnos == {"ENOMEM"}
BitPos == 0..63

\* ------------------------------------------------------------- u64 values
U64Zero == [b \in BitPos |-> 0]

\* bindgen bitfield setter: stores the low bit of val at position pos.
BitfieldSet(v, pos, val) == [v EXCEPT ![pos] = val % 2]

BitOr(a, b) == [i \in BitPos |-> IF a[i] = 1 \/ b[i] = 1 THEN 1 ELSE 0]

Shl1(pos) == [i \in BitPos |-> IF i = pos THEN 1 ELSE 0]

RECURSIVE set_bits(_)
\* set_bits!(u64, b1, b2, ...): 0 | 1 << b1 | 1 << b2 | ...
set_bits(bits) ==
    IF bits = <<>> THEN U64Zero
    ELSE BitOr(Shl1(Head(bits)), set_bits(Tail(bits)))

OnesOf(v) == {b \in BitPos : v[b] = 1}

\* --------------------------------------------------- ABI constants (bindings)
MSHV_PT_BIT_LAPIC == 0
MSHV_PT_BIT_X2APIC == 1
MSHV_PT_BIT_GPA_SUPER_PAGES == 2
MSHV_PT_ISOLATION_NONE == 0
MSHV_PT_ISOLATION_SNP == 1

\* Bit position of each field of hv_partition_synthetic_processor_features.
FeatureBit(name) ==
    CASE name = "hypervisor_present" -> 0
      [] name = "hv1" -> 1
      [] name = "access_vp_run_time_reg" -> 2
      [] name = "access_partition_reference_counter" -> 3
      [] name = "access_synic_regs" -> 4
      [] name = "access_synthetic_timer_regs" -> 5
      [] name = "access_intr_ctrl_regs" -> 6
      [] name = "access_hypercall_regs" -> 7
      [] name = "access_vp_index" -> 8
      [] name = "access_partition_reference_tsc" -> 9
      [] name = "access_guest_idle_reg" -> 10
      [] name = "access_frequency_regs" -> 11
      [] name = "direct_synthetic_timers" -> 22
      [] name = "tb_flush_hypercalls" -> 25
      [] name = "synthetic_cluster_ipi" -> 26

SYNTHETIC_PROC_FEATURES == "HV_PARTITION_PROPERTY_SYNTHETIC_PROC_FEATURES"

\* ---------------------------------------- create_vm_with_type: pure part
\* The setter calls of lines 93-107, in program order, for a build target.
FeatureSetters_NoTbFlush(a) ==
    <<"hypervisor_present", "hv1", "access_partition_reference_counter",
      "access_synic_regs", "access_synthetic_timer_regs",
      "access_partition_reference_tsc", "access_frequency_regs",
      "access_intr_ctrl_regs", "access_vp_index", "access_hypercall_regs">>
    \o (IF a # "aarch64" THEN <<"access_guest_idle_reg">> ELSE <<>>)
    \o <<"synthetic_cluster_ipi", "direct_synthetic_timers">>

FeatureSetters_Ungated(a) ==
    <<"hypervisor_present", "hv1", "access_partition_reference_counter",
      "access_synic_regs", "access_synthetic_timer_regs",
      "access_partition_reference_tsc", "access_frequency_regs",
      "access_intr_ctrl_regs", "access_vp_index", "access_hypercall_regs",
      "access_guest_idle_reg",
      "tb_flush_hypercalls", "synthetic_cluster_ipi", "direct_synthetic_timers">>

FeatureSetters(a) ==
    <<"hypervisor_present", "hv1", "access_partition_reference_counter",
      "access_synic_regs", "access_synthetic_timer_regs",
      "access_partition_reference_tsc", "access_frequency_regs",
      "access_intr_ctrl_regs", "access_vp_index", "access_hypercall_regs">>
    \o (IF a # "aarch64" THEN <<"access_guest_idle_reg">> ELSE <<>>)
    \o <<"tb_flush_hypercalls", "synthetic_cluster_ipi", "direct_synthetic_timers">>

RECURSIVE ApplySetters(_, _)
ApplySetters(v, names) ==
    IF names = <<>> THEN v
    ELSE ApplySetters(BitfieldSet(v, FeatureBit(Head(names)), 1), Tail(names))

\* features.as_uint64[0] after the setters ran on Default::default().
features(a) == ApplySetters(U64Zero, FeatureSetters(a))

pt_flags ==
    set_bits(<<MSHV_PT_BIT_LAPIC, MSHV_PT_BIT_X2APIC, MSHV_PT_BIT_GPA_SUPER_PAGES>>)

pt_isolation_NoSnp(vmt) == MSHV_PT_ISOLATION_NONE

pt_isolation(vmt) ==
    IF vmt = "Snp" THEN MSHV_PT_ISOLATION_SNP ELSE MSHV_PT_ISOLATION_NONE

create_args(vmt) == [pt_flags |-> pt_flags, pt_isolation |-> pt_isolation(vmt)]

\* mshv_create_partition::default(), as a caller of create_vm_with_args
\* may pass it.
DefaultArgs == [pt_flags |-> U64Zero, pt_isolation |-> 0]

\* ------------------------------------------------------------------ state
VARIABLES
    arch,       \* build target (cfg(target_arch))
    hostProps,  \* kernel: host partition property code -> value, or -1
    nextFd,     \* kernel: next descriptor number to hand out
    fdState,    \* kernel: descriptor -> "unused" | "open" | "closed"
    fdKind,     \* kernel: descriptor -> "none" | "device" | "partition"
    fdFlags,    \* kernel: descriptor -> open flags of a device descriptor
    closeCount, \* kernel: descriptor -> number of close() calls received
    partCalls,  \* kernel: open partition -> control calls it received so far
    hv,         \* caller t: descriptor held by its Mshv { hv: File }, or NoFd
    handles,    \* caller t: descriptors of the VmFd values it owns
    pc,         \* caller t: position inside create_vm_with_type, or "idle"
    fn,         \* caller t: the public function invoked last
    args,       \* caller t: the request last given to create_vm_with_args
    vm_type,    \* create_vm_with_type local: vm_type
    close_on_exec, \* open_with_cloexec parameter: close_on_exec
    vm,         \* create_vm_with_type local: descriptor of `vm`, or NoFd
    calls,      \* caller t: system calls issued by the current/last invocation
    result      \* caller t: what the last invocation returned

kernelVars == <<nextFd, fdState, fdKind, fdFlags, closeCount, partCalls>>
vars == <<arch, hostProps, nextFd, fdState, fdKind, fdFlags, closeCount, partCalls,
          hv, handles, pc, fn, args, vm_type, close_on_exec, vm, calls, result>>

NoResult == [kind |-> "None", val |-> NoFd, err |-> "none"]
Ok(v) == [kind |-> "Ok", val |-> v, err |-> "none"]
Err(e) == [kind |-> "Err", val |-> NoFd, err |-> e]

\* ------------------------------------------------------ capability query
PropertyCodes == {"PHYSICAL_ADDRESS_WIDTH", "ZERO_VALUED", "UNSUPPORTED"}

\* The host's property table: a code is accepted (a value) or rejected (-1).
ReferenceHost == [c \in PropertyCodes |->
                    CASE c = "PHYSICAL_ADDRESS_WIDTH" -> 48
                      [] c = "ZERO_VALUED" -> 0
                      [] c = "UNSUPPORTED" -> -1]

InitProgram ==
    /\ arch \in Archs
    /\ nextFd = 0
    /\ fdState = [f \in Fds |-> "unused"]
    /\ fdKind = [f \in Fds |-> "none"]
    /\ fdFlags = [f \in Fds |-> {}]
    /\ closeCount = [f \in Fds |-> 0]
    /\ partCalls = [f \in Fds |-> <<>>]
    /\ hv = [t \in Threads |-> NoFd]
    /\ handles = [t \in Threads |-> {}]
    /\ pc = [t \in Threads |-> "idle"]
    /\ fn = [t \in Threads |-> "none"]
    /\ args = [t \in Threads |-> DefaultArgs]
    /\ vm_type = [t \in Threads |-> "Normal"]
    /\ close_on_exec = [t \in Threads |-> TRUE]
    /\ vm = [t \in Threads |-> NoFd]
    /\ calls = [t \in Threads |-> <<>>]
    /\ result = [t \in Threads |-> NoResult]

Init == InitProgram /\ hostProps = ReferenceHost

\* ----------------------------------------------------------------- kernel
FdOpen(fd) == fd \in Fds /\ fdState[fd] = "open"

\* What a system call that allocates a descriptor may answer.
AllocResponses(onOpenFd) ==
    IF ~onOpenFd THEN {[ret |-> -1, errno |-> "EBADF"]}
    ELSE {[ret |-> -1, errno |-> e] : e \in Errnos}
         \cup (IF nextFd < MaxFd THEN {[ret |-> nextFd, errno |-> "none"]}
               ELSE {[ret |-> -1, errno |-> "EMFILE"]})

\* What a control call on descriptor fd that returns a status may answer.
StatusResponses(fd) ==
    IF ~FdOpen(fd) THEN {[ret |-> -1, errno |-> "EBADF"]}
    ELSE {[ret |-> -1, errno |-> e] : e \in Errnos}
         \cup {[ret |-> 0, errno |-> "none"]}

\* close(fd), as File's drop issues it.
Closed(st, fd) == IF fd \in Fds THEN [st EXCEPT ![fd] = "closed"] ELSE st
CloseCounted(cc, fd) == IF fd \in Fds THEN [cc EXCEPT ![fd] = @ + 1] ELSE cc

Received(pcs, fd, call) ==
    IF fd \in Fds THEN [pcs EXCEPT ![fd] = Append(@, call)] ELSE pcs

\* Closing a partition descriptor destroys the partition and its record.
Destroyed(pcs, fd) == IF fd \in Fds THEN [pcs EXCEPT ![fd] = <<>>] ELSE pcs

SysCall(op, fd, arg, r) ==
    [op |-> op, fd |-> fd, arg |-> arg, ret |-> r.ret, errno |-> r.errno]

\* ----------------------------------------------------------- Mshv::new
O_NONBLOCK == "O_NONBLOCK"
O_CLOEXEC == "O_CLOEXEC"

open_flags_AlwaysCloexec(coe) == {O_NONBLOCK, O_CLOEXEC}

open_flags(coe) ==
    {O_NONBLOCK} \cup (IF coe THEN {O_CLOEXEC} ELSE {})

\* The status test of lines 56, 67 and 81.
IoctlOk_Always(ret) == TRUE

IoctlOk(ret) == ret >= 0

\* open_with_cloexec(close_on_exec), called by the user of the library: the
\* raw descriptor is returned to the caller, no handle owns it.
open_with_cloexec(t, coe) ==
    /\ pc[t] = "idle"
    /\ close_on_exec' = [close_on_exec EXCEPT ![t] = coe]
    /\ \E r \in AllocResponses(TRUE) :
        /\ calls' = [calls EXCEPT ![t] =
                        <<SysCall("open", NoFd, open_flags(coe), r)>>]
        /\ result' = [result EXCEPT ![t] =
                        IF r.ret < 0 THEN Err(r.errno) ELSE Ok(r.ret)]
        /\ IF r.ret >= 0
           THEN /\ nextFd' = nextFd + 1
                /\ fdState' = [fdState EXCEPT ![r.ret] = "open"]
                /\ fdKind' = [fdKind EXCEPT ![r.ret] = "device"]
                /\ fdFlags' = [fdFlags EXCEPT ![r.ret] = open_flags(coe)]
           ELSE UNCHANGED <<nextFd, fdState, fdKind, fdFlags>>
    /\ fn' = [fn EXCEPT ![t] = "open_with_cloexec"]
    /\ UNCHANGED <<arch, hostProps, args, closeCount, partCalls, hv, handles, pc,
                   vm_type, vm>>

\* Mshv::new(): open_with_cloexec(true)?, then new_with_fd_number(fd).
Mshv_new(t) ==
    /\ pc[t] = "idle"
    /\ hv[t] = NoFd
    /\ \E r \in AllocResponses(TRUE) :
        /\ calls' = [calls EXCEPT ![t] =
                        <<SysCall("open", NoFd, open_flags(TRUE), r)>>]
        /\ IF IoctlOk(r.ret)
           THEN /\ hv' = [hv EXCEPT ![t] = r.ret]
                /\ result' = [result EXCEPT ![t] = Ok(r.ret)]
           ELSE /\ hv' = hv
                /\ result' = [result EXCEPT ![t] = Err(r.errno)]
        /\ IF r.ret >= 0
           THEN /\ nextFd' = nextFd + 1
                /\ fdState' = [fdState EXCEPT ![r.ret] = "open"]
                /\ fdKind' = [fdKind EXCEPT ![r.ret] = "device"]
                /\ fdFlags' = [fdFlags EXCEPT ![r.ret] = open_flags(TRUE)]
           ELSE UNCHANGED <<nextFd, fdState, fdKind, fdFlags>>
    /\ fn' = [fn EXCEPT ![t] = "new"]
    /\ UNCHANGED <<arch, hostProps, args, close_on_exec, closeCount, partCalls, handles, pc, vm_type, vm>>

\* -------------------------------------------------- partition creation
\* The kernel's side of MSHV_CREATE_PARTITION answering r.
KernelCreated(t, a, r) ==
    IF r.ret >= 0
    THEN /\ nextFd' = nextFd + 1
         /\ fdState' = [fdState EXCEPT ![r.ret] = "open"]
         /\ fdKind' = [fdKind EXCEPT ![r.ret] = "partition"]
         /\ partCalls' = [partCalls EXCEPT ![r.ret] =
                <<[op |-> "CREATE_PARTITION", fd |-> r.ret, ret |-> r.ret, by |-> t]>>]
    ELSE UNCHANGED <<nextFd, fdState, fdKind, partCalls>>

\* Arguments a caller passes to create_vm_with_args directly.
CallerArgs == {DefaultArgs} \cup {create_args(vmt) : vmt \in VmTypes}

\* create_vm_with_args(&self, args), called by the user of the library.
create_vm_with_args_DefaultRequest(t, a) ==
    /\ pc[t] = "idle"
    /\ hv[t] # NoFd
    /\ \E r \in AllocResponses(FdOpen(hv[t])) :
        /\ KernelCreated(t, DefaultArgs, r)
        /\ calls' = [calls EXCEPT ![t] =
                <<SysCall("MSHV_CREATE_PARTITION", hv[t], DefaultArgs, r)>>]
        /\ IF IoctlOk(r.ret)
           THEN /\ handles' = [handles EXCEPT ![t] = @ \cup {r.ret}]
                /\ result' = [result EXCEPT ![t] = Ok(r.ret)]
           ELSE /\ handles' = handles
                /\ result' = [result EXCEPT ![t] = Err(r.errno)]
    /\ fn' = [fn EXCEPT ![t] = "create_vm_with_args"]
    /\ args' = [args EXCEPT ![t] = a]
    /\ UNCHANGED <<arch, hostProps, close_on_exec, fdFlags, closeCount, hv, pc, vm_type, vm>>

create_vm_with_args(t, a) ==
    /\ pc[t] = "idle"
    /\ hv[t] # NoFd
    /\ \E r \in AllocResponses(FdOpen(hv[t])) :
        /\ KernelCreated(t, a, r)
        /\ calls' = [calls EXCEPT ![t] =
                        <<SysCall("MSHV_CREATE_PARTITION", hv[t], a, r)>>]
        /\ IF IoctlOk(r.ret)
           THEN /\ handles' = [handles EXCEPT ![t] = @ \cup {r.ret}]
                /\ result' = [result EXCEPT ![t] = Ok(r.ret)]
           ELSE /\ handles' = handles
                /\ result' = [result EXCEPT ![t] = Err(r.errno)]
    /\ fn' = [fn EXCEPT ![t] = "create_vm_with_args"]
    /\ args' = [args EXCEPT ![t] = a]
    /\ UNCHANGED <<arch, hostProps, close_on_exec, fdFlags, closeCount, hv, pc, vm_type, vm>>

\* Statement order of create_vm_with_type after line 126.
StepAfter_InitializeFirst(s) ==
    CASE s = "create" -> "initialize"
      [] s = "initialize" -> "set_property"
      [] s = "set_property" -> "return"

StepAfter_Repeat(s) ==
    CASE s = "create" -> "set_property"
      [] s = "set_property" -> "set_property"
      [] s = "initialize" -> "return"

StepAfter_SkipInitialize(s) ==
    CASE s = "create" -> "set_property"
      [] s = "set_property" -> "return"
      [] s = "initialize" -> "return"

StepAfter(s) ==
    CASE s = "create" -> "set_property"
      [] s = "set_property" -> "initialize"
      [] s = "initialize" -> "return"

\* create_vm_with_type lines 89-126: build the payloads, issue the creation
\* call through create_vm_with_args, `?` on its result.
CreateStep(t, vmt, name) ==
    /\ pc[t] = "idle"
    /\ hv[t] # NoFd
    /\ vm_type' = [vm_type EXCEPT ![t] = vmt]
    /\ fn' = [fn EXCEPT ![t] = name]
    /\ args' = [args EXCEPT ![t] = create_args(vmt)]
    /\ \E r \in AllocResponses(FdOpen(hv[t])) :
        /\ KernelCreated(t, create_args(vmt), r)
        /\ calls' = [calls EXCEPT ![t] =
                <<SysCall("MSHV_CREATE_PARTITION", hv[t], create_args(vmt), r)>>]
        /\ IF IoctlOk(r.ret)
           THEN /\ vm' = [vm EXCEPT ![t] = r.ret]
                /\ pc' = [pc EXCEPT ![t] = StepAfter("create")]
                /\ result' = [result EXCEPT ![t] = NoResult]
           ELSE /\ vm' = vm
                /\ pc' = pc
                /\ result' = [result EXCEPT ![t] = Err(r.errno)]
    /\ UNCHANGED <<arch, hostProps, close_on_exec, fdFlags, closeCount, hv, handles>>

create_vm_with_type(t, vmt) == CreateStep(t, vmt, "create_vm_with_type")

\* create_vm(&self) == self.create_vm_with_type(VmType::Normal)
create_vm_AsSnp(t) == CreateStep(t, "Snp", "create_vm")

create_vm(t) == CreateStep(t, "Normal", "create_vm")

\* Result of a Partition Handle operation from the status of its control call.
PartitionCallOk(r) == r.ret >= 0

\* `?` on an Err: the function returns the error; its local `vm` goes out of
\* scope, and dropping the VmFd closes the partition descriptor.
ReturnErr_HandOver(t, r) ==
    /\ result' = [result EXCEPT ![t] = Err(r.errno)]
    /\ handles' = [handles EXCEPT ![t] = @ \cup {vm[t]}]
    /\ vm' = [vm EXCEPT ![t] = NoFd]
    /\ pc' = [pc EXCEPT ![t] = "idle"]
    /\ UNCHANGED <<fdState, closeCount, partCalls>>

ReturnErr_Forget(t, r) ==
    /\ result' = [result EXCEPT ![t] = Err(r.errno)]
    /\ vm' = [vm EXCEPT ![t] = NoFd]
    /\ pc' = [pc EXCEPT ![t] = "idle"]
    /\ UNCHANGED <<handles, fdState, closeCount, partCalls>>

ReturnErr(t, r) ==
    /\ result' = [result EXCEPT ![t] = Err(r.errno)]
    /\ fdState' = Closed(fdState, vm[t])
    /\ closeCount' = CloseCounted(closeCount, vm[t])
    /\ partCalls' = Destroyed(partCalls, vm[t])
    /\ vm' = [vm EXCEPT ![t] = NoFd]
    /\ pc' = [pc EXCEPT ![t] = "idle"]
    /\ handles' = handles

\* Line 136: Ok(vm) moves the handle to the caller.
ReturnOk_ClosesToo(t, call) ==
    /\ result' = [result EXCEPT ![t] = Ok(vm[t])]
    /\ handles' = [handles EXCEPT ![t] = @ \cup {vm[t]}]
    /\ vm' = [vm EXCEPT ![t] = NoFd]
    /\ pc' = [pc EXCEPT ![t] = "idle"]
    /\ partCalls' = Destroyed(partCalls, vm[t])
    /\ fdState' = Closed(fdState, vm[t])
    /\ closeCount' = CloseCounted(closeCount, vm[t])

ReturnOk(t, call) ==
    /\ result' = [result EXCEPT ![t] = Ok(vm[t])]
    /\ handles' = [handles EXCEPT ![t] = @ \cup {vm[t]}]
    /\ vm' = [vm EXCEPT ![t] = NoFd]
    /\ pc' = [pc EXCEPT ![t] = "idle"]
    /\ partCalls' = Received(partCalls, call.fd, call)
    /\ UNCHANGED <<fdState, closeCount>>

\* The call succeeded and another statement follows.
Proceed(t, s, call) ==
    /\ pc' = [pc EXCEPT ![t] = StepAfter(s)]
    /\ partCalls' = Received(partCalls, call.fd, call)
    /\ UNCHANGED <<result, handles, vm, fdState, closeCount>>

\* After the control call of step s on `vm` answered r: `?` returns the
\* error, otherwise the function goes on to the next statement, and after
\* the last one returns Ok(vm).
AfterPartitionCall_NoQuestionMark(t, s, r, call) ==
    IF StepAfter(s) = "return" THEN ReturnOk(t, call) ELSE Proceed(t, s, call)

AfterPartitionCall(t, s, r, call) ==
    IF ~PartitionCallOk(r) THEN ReturnErr(t, r)
    ELSE IF StepAfter(s) = "return" THEN ReturnOk(t, call)
    ELSE Proceed(t, s, call)

\* The receiver of the method calls of lines 129 and 134: the local `vm`.
Receiver_LastCreated(t) == nextFd - 1

Receiver(t) == vm[t]

\* Lines 129-132: vm.hvcall_set_partition_property(code, features)?
SetPropertyStep(t) ==
    /\ pc[t] = "set_property"
    /\ \E r \in StatusResponses(Receiver(t)) :
        LET arg == [code |-> SYNTHETIC_PROC_FEATURES, value |-> features(arch)] IN
        /\ calls' = [calls EXCEPT ![t] =
                Append(@, SysCall("SET_PARTITION_PROPERTY", Receiver(t), arg, r))]
        /\ AfterPartitionCall(t, "set_property", r,
                [op |-> "SET_PARTITION_PROPERTY", fd |-> Receiver(t), ret |-> r.ret, by |-> t])
    /\ UNCHANGED <<arch, hostProps, args, close_on_exec, nextFd, fdKind, fdFlags, hv, fn, vm_type>>

\* Line 134: vm.initialize()?
InitializeStep(t) ==
    /\ pc[t] = "initialize"
    /\ \E r \in StatusResponses(Receiver(t)) :
        /\ calls' = [calls EXCEPT ![t] =
                Append(@, SysCall("INITIALIZE_PARTITION", Receiver(t), "none", r))]
        /\ AfterPartitionCall(t, "initialize", r,
                [op |-> "INITIALIZE_PARTITION", fd |-> Receiver(t), ret |-> r.ret, by |-> t])
    /\ UNCHANGED <<arch, hostProps, args, close_on_exec, nextFd, fdKind, fdFlags, hv, fn, vm_type>>

\* What MSHV_GET_HOST_PARTITION_PROPERTY answers for a code: the host's
\* value, a negative status for a code it rejects.
PropertyResponses(fd, code) ==
    IF ~FdOpen(fd) THEN {[ret |-> -1, errno |-> "EBADF"]}
    ELSE IF hostProps[code] >= 0 THEN {[ret |-> hostProps[code], errno |-> "none"]}
    ELSE {[ret |-> -1, errno |-> "EINVAL"]}

\* Lines 81-85: the Result made from the status of the control call.
PropertyResult_StatusOnly(r) ==
    IF IoctlOk(r.ret) THEN Ok(0) ELSE Err(r.errno)

PropertyResult_ZeroIsError(r) ==
    IF r.ret > 0 THEN Ok(r.ret) ELSE Err(r.errno)

PropertyResult(r) ==
    IF IoctlOk(r.ret) THEN Ok(r.ret) ELSE Err(r.errno)

get_host_partition_property(t, property_code) ==
    /\ pc[t] = "idle"
    /\ hv[t] # NoFd
    /\ \E r \in PropertyResponses(hv[t], property_code) :
        /\ calls' = [calls EXCEPT ![t] =
                <<SysCall("MSHV_GET_HOST_PARTITION_PROPERTY", hv[t], property_code, r)>>]
        /\ result' = [result EXCEPT ![t] = PropertyResult(r)]
    /\ fn' = [fn EXCEPT ![t] = "get_host_partition_property"]
    /\ UNCHANGED <<arch, hostProps, args, close_on_exec, kernelVars, hv, handles, pc, vm_type, vm>>

\* ------------------------------------------------------------------ drops
\* The caller drops a VmFd it owns: its File closes the descriptor.
drop_vm(t, fd) ==
    /\ pc[t] = "idle"
    /\ fd \in handles[t]
    /\ handles' = [handles EXCEPT ![t] = @ \ {fd}]
    /\ fdState' = Closed(fdState, fd)
    /\ closeCount' = CloseCounted(closeCount, fd)
    /\ partCalls' = Destroyed(partCalls, fd)
    /\ UNCHANGED <<arch, hostProps, args, close_on_exec, nextFd, fdKind, fdFlags, hv, pc, fn,
                   vm_type, vm, calls, result>>

\* The caller drops its Mshv: hv: File closes the device descriptor.
drop_mshv(t) ==
    /\ pc[t] = "idle"
    /\ hv[t] # NoFd
    /\ hv' = [hv EXCEPT ![t] = NoFd]
    /\ fdState' = Closed(fdState, hv[t])
    /\ closeCount' = CloseCounted(closeCount, hv[t])
    /\ UNCHANGED <<arch, hostProps, args, close_on_exec, nextFd, fdKind, fdFlags, partCalls, handles, pc, fn,
                   vm_type, vm, calls, result>>

\* ------------------------------------------------------ register catalog
\* Value of each register identifier, as <<high 16 bits, low 16 bits>> of the u32.
MsrIndex(name) ==
    CASE name = "IA32_MSR_TSC" -> <<0, 16>>
      [] name = "IA32_MSR_EFER" -> <<49152, 128>>
      [] name = "IA32_MSR_KERNEL_GS_BASE" -> <<49152, 258>>
      [] name = "IA32_MSR_APIC_BASE" -> <<0, 27>>
      [] name = "IA32_MSR_PAT" -> <<0, 631>>
      [] name = "IA32_MSR_SYSENTER_CS" -> <<0, 372>>
      [] name = "IA32_MSR_SYSENTER_ESP" -> <<0, 373>>
      [] name = "IA32_MSR_SYSENTER_EIP" -> <<0, 374>>
      [] name = "IA32_MSR_STAR" -> <<49152, 129>>
      [] name = "IA32_MSR_LSTAR" -> <<49152, 130>>
      [] name = "IA32_MSR_CSTAR" -> <<49152, 131>>
      [] name = "IA32_MSR_SFMASK" -> <<49152, 132>>
      [] name = "IA32_MSR_MTRR_DEF_TYPE" -> <<0, 767>>
      [] name = "IA32_MSR_MTRR_PHYSBASE0" -> <<0, 512>>
      [] name = "IA32_MSR_MTRR_PHYSMASK0" -> <<0, 513>>
      [] name = "IA32_MSR_MTRR_PHYSBASE1" -> <<0, 514>>
      [] name = "IA32_MSR_MTRR_PHYSMASK1" -> <<0, 515>>
      [] name = "IA32_MSR_MTRR_PHYSBASE2" -> <<0, 516>>
      [] name = "IA32_MSR_MTRR_PHYSMASK2" -> <<0, 517>>
      [] name = "IA32_MSR_MTRR_PHYSBASE3" -> <<0, 518>>
      [] name = "IA32_MSR_MTRR_PHYSMASK3" -> <<0, 519>>
      [] name = "IA32_MSR_MTRR_PHYSBASE4" -> <<0, 520>>
      [] name = "IA32_MSR_MTRR_PHYSMASK4" -> <<0, 521>>
      [] name = "IA32_MSR_MTRR_PHYSBASE5" -> <<0, 522>>
      [] name = "IA32_MSR_MTRR_PHYSMASK5" -> <<0, 523>>
      [] name = "IA32_MSR_MTRR_PHYSBASE6" -> <<0, 524>>
      [] name = "IA32_MSR_MTRR_PHYSMASK6" -> <<0, 525>>
      [] name = "IA32_MSR_MTRR_PHYSBASE7" -> <<0, 526>>
      [] name = "IA32_MSR_MTRR_PHYSMASK7" -> <<0, 527>>
      [] name = "IA32_MSR_MTRR_FIX64K_00000" -> <<0, 592>>
      [] name = "IA32_MSR_MTRR_FIX16K_80000" -> <<0, 600>>
      [] name = "IA32_MSR_MTRR_FIX16K_A0000" -> <<0, 601>>
      [] name = "IA32_MSR_MTRR_FIX4K_C0000" -> <<0, 616>>
      [] name = "IA32_MSR_MTRR_FIX4K_C8000" -> <<0, 617>>
      [] name = "IA32_MSR_MTRR_FIX4K_D0000" -> <<0, 618>>
      [] name = "IA32_MSR_MTRR_FIX4K_D8000" -> <<0, 619>>
      [] name = "IA32_MSR_MTRR_FIX4K_E0000" -> <<0, 620>>
      [] name = "IA32_MSR_MTRR_FIX4K_E8000" -> <<0, 621>>
      [] name = "IA32_MSR_MTRR_FIX4K_F0000" -> <<0, 622>>
      [] name = "IA32_MSR_MTRR_FIX4K_F8000" -> <<0, 623>>
      [] name = "IA32_MSR_TSC_AUX" -> <<49152, 259>>
      [] name = "IA32_MSR_DEBUG_CTL" -> <<0, 473>>
      [] name = "HV_X64_MSR_GUEST_OS_ID" -> <<16384, 0>>
      [] name = "HV_X64_MSR_SINT0" -> <<16384, 144>>
      [] name = "HV_X64_MSR_SINT1" -> <<16384, 145>>
      [] name = "HV_X64_MSR_SINT2" -> <<16384, 146>>
      [] name = "HV_X64_MSR_SINT3" -> <<16384, 147>>
      [] name = "HV_X64_MSR_SINT4" -> <<16384, 148>>
      [] name = "HV_X64_MSR_SINT5" -> <<16384, 149>>
      [] name = "HV_X64_MSR_SINT6" -> <<16384, 150>>
      [] name = "HV_X64_MSR_SINT7" -> <<16384, 151>>
      [] name = "HV_X64_MSR_SINT8" -> <<16384, 152>>
      [] name = "HV_X64_MSR_SINT9" -> <<16384, 153>>
      [] name = "HV_X64_MSR_SINT10" -> <<16384, 154>>
      [] name = "HV_X64_MSR_SINT11" -> <<16384, 155>>
      [] name = "HV_X64_MSR_SINT12" -> <<16384, 156>>
      [] name = "HV_X64_MSR_SINT13" -> <<16384, 157>>
      [] name = "HV_X64_MSR_SINT14" -> <<16384, 158>>
      [] name = "HV_X64_MSR_SINT15" -> <<16384, 159>>
      [] name = "HV_X64_MSR_SCONTROL" -> <<16384, 128>>
      [] name = "HV_X64_MSR_SIEFP" -> <<16384, 130>>
      [] name = "HV_X64_MSR_SIMP" -> <<16384, 131>>
      [] name = "HV_X64_MSR_REFERENCE_TSC" -> <<16384, 33>>
      [] name = "HV_X64_MSR_EOM" -> <<16384, 132>>
      [] name = "IA32_MSR_BNDCFGS" -> <<0, 3472>>
      [] name = "IA32_MSR_SPEC_CTRL" -> <<0, 72>>
      [] name = "IA32_MSR_TSC_ADJUST" -> <<0, 59>>

\* The entries of lines 149-226, in order (commented-out lines are absent).
MsrEntries_WithTscAdjust ==
    <<
      "IA32_MSR_TSC", "IA32_MSR_EFER", "IA32_MSR_KERNEL_GS_BASE",
      "IA32_MSR_APIC_BASE", "IA32_MSR_PAT", "IA32_MSR_SYSENTER_CS",
      "IA32_MSR_SYSENTER_ESP", "IA32_MSR_SYSENTER_EIP", "IA32_MSR_STAR",
      "IA32_MSR_LSTAR", "IA32_MSR_CSTAR", "IA32_MSR_SFMASK",
      "IA32_MSR_MTRR_DEF_TYPE", "IA32_MSR_MTRR_PHYSBASE0",
      "IA32_MSR_MTRR_PHYSMASK0", "IA32_MSR_MTRR_PHYSBASE1",
      "IA32_MSR_MTRR_PHYSMASK1", "IA32_MSR_MTRR_PHYSBASE2",
      "IA32_MSR_MTRR_PHYSMASK2", "IA32_MSR_MTRR_PHYSBASE3",
      "IA32_MSR_MTRR_PHYSMASK3", "IA32_MSR_MTRR_PHYSBASE4",
      "IA32_MSR_MTRR_PHYSMASK4", "IA32_MSR_MTRR_PHYSBASE5",
      "IA32_MSR_MTRR_PHYSMASK5", "IA32_MSR_MTRR_PHYSBASE6",
      "IA32_MSR_MTRR_PHYSMASK6", "IA32_MSR_MTRR_PHYSBASE7",
      "IA32_MSR_MTRR_PHYSMASK7", "IA32_MSR_MTRR_FIX64K_00000",
      "IA32_MSR_MTRR_FIX16K_80000", "IA32_MSR_MTRR_FIX16K_A0000",
      "IA32_MSR_MTRR_FIX4K_C0000", "IA32_MSR_MTRR_FIX4K_C8000",
      "IA32_MSR_MTRR_FIX4K_D0000", "IA32_MSR_MTRR_FIX4K_D8000",
      "IA32_MSR_MTRR_FIX4K_E0000", "IA32_MSR_MTRR_FIX4K_E8000",
      "IA32_MSR_MTRR_FIX4K_F0000", "IA32_MSR_MTRR_FIX4K_F8000",
      "IA32_MSR_TSC_AUX", "IA32_MSR_DEBUG_CTL", "IA32_MSR_TSC_ADJUST",
      "HV_X64_MSR_GUEST_OS_ID", "HV_X64_MSR_SINT0", "HV_X64_MSR_SINT1",
      "HV_X64_MSR_SINT2", "HV_X64_MSR_SINT3", "HV_X64_MSR_SINT4",
      "HV_X64_MSR_SINT5", "HV_X64_MSR_SINT6", "HV_X64_MSR_SINT7",
      "HV_X64_MSR_SINT8", "HV_X64_MSR_SINT9", "HV_X64_MSR_SINT10",
      "HV_X64_MSR_SINT11", "HV_X64_MSR_SINT12", "HV_X64_MSR_SINT13",
      "HV_X64_MSR_SINT14", "HV_X64_MSR_SINT15", "HV_X64_MSR_SCONTROL",
      "HV_X64_MSR_SIEFP", "HV_X64_MSR_SIMP", "HV_X64_MSR_REFERENCE_TSC",
      "HV_X64_MSR_EOM"
    >>

MsrEntries_Sint14Twice ==
    <<
      "IA32_MSR_TSC", "IA32_MSR_EFER", "IA32_MSR_KERNEL_GS_BASE",
      "IA32_MSR_APIC_BASE", "IA32_MSR_PAT", "IA32_MSR_SYSENTER_CS",
      "IA32_MSR_SYSENTER_ESP", "IA32_MSR_SYSENTER_EIP", "IA32_MSR_STAR",
      "IA32_MSR_LSTAR", "IA32_MSR_CSTAR", "IA32_MSR_SFMASK",
      "IA32_MSR_MTRR_DEF_TYPE", "IA32_MSR_MTRR_PHYSBASE0",
      "IA32_MSR_MTRR_PHYSMASK0", "IA32_MSR_MTRR_PHYSBASE1",
      "IA32_MSR_MTRR_PHYSMASK1", "IA32_MSR_MTRR_PHYSBASE2",
      "IA32_MSR_MTRR_PHYSMASK2", "IA32_MSR_MTRR_PHYSBASE3",
      "IA32_MSR_MTRR_PHYSMASK3", "IA32_MSR_MTRR_PHYSBASE4",
      "IA32_MSR_MTRR_PHYSMASK4", "IA32_MSR_MTRR_PHYSBASE5",
      "IA32_MSR_MTRR_PHYSMASK5", "IA32_MSR_MTRR_PHYSBASE6",
      "IA32_MSR_MTRR_PHYSMASK6", "IA32_MSR_MTRR_PHYSBASE7",
      "IA32_MSR_MTRR_PHYSMASK7", "IA32_MSR_MTRR_FIX64K_00000",
      "IA32_MSR_MTRR_FIX16K_80000", "IA32_MSR_MTRR_FIX16K_A0000",
      "IA32_MSR_MTRR_FIX4K_C0000", "IA32_MSR_MTRR_FIX4K_C8000",
      "IA32_MSR_MTRR_FIX4K_D0000", "IA32_MSR_MTRR_FIX4K_D8000",
      "IA32_MSR_MTRR_FIX4K_E0000", "IA32_MSR_MTRR_FIX4K_E8000",
      "IA32_MSR_MTRR_FIX4K_F0000", "IA32_MSR_MTRR_FIX4K_F8000",
      "IA32_MSR_TSC_AUX", "IA32_MSR_DEBUG_CTL", "HV_X64_MSR_GUEST_OS_ID",
      "HV_X64_MSR_SINT0", "HV_X64_MSR_SINT1", "HV_X64_MSR_SINT2",
      "HV_X64_MSR_SINT3", "HV_X64_MSR_SINT4", "HV_X64_MSR_SINT5",
      "HV_X64_MSR_SINT6", "HV_X64_MSR_SINT7", "HV_X64_MSR_SINT8",
      "HV_X64_MSR_SINT9", "HV_X64_MSR_SINT10", "HV_X64_MSR_SINT11",
      "HV_X64_MSR_SINT12", "HV_X64_MSR_SINT13", "HV_X64_MSR_SINT14",
      "HV_X64_MSR_SINT14", "HV_X64_MSR_SCONTROL", "HV_X64_MSR_SIEFP",
      "HV_X64_MSR_SIMP", "HV_X64_MSR_REFERENCE_TSC", "HV_X64_MSR_EOM"
    >>

MsrEntries ==
    <<
      "IA32_MSR_TSC", "IA32_MSR_EFER", "IA32_MSR_KERNEL_GS_BASE",
      "IA32_MSR_APIC_BASE", "IA32_MSR_PAT", "IA32_MSR_SYSENTER_CS",
      "IA32_MSR_SYSENTER_ESP", "IA32_MSR_SYSENTER_EIP", "IA32_MSR_STAR",
      "IA32_MSR_LSTAR", "IA32_MSR_CSTAR", "IA32_MSR_SFMASK",
      "IA32_MSR_MTRR_DEF_TYPE", "IA32_MSR_MTRR_PHYSBASE0",
      "IA32_MSR_MTRR_PHYSMASK0", "IA32_MSR_MTRR_PHYSBASE1",
      "IA32_MSR_MTRR_PHYSMASK1", "IA32_MSR_MTRR_PHYSBASE2",
      "IA32_MSR_MTRR_PHYSMASK2", "IA32_MSR_MTRR_PHYSBASE3",
      "IA32_MSR_MTRR_PHYSMASK3", "IA32_MSR_MTRR_PHYSBASE4",
      "IA32_MSR_MTRR_PHYSMASK4", "IA32_MSR_MTRR_PHYSBASE5",
      "IA32_MSR_MTRR_PHYSMASK5", "IA32_MSR_MTRR_PHYSBASE6",
      "IA32_MSR_MTRR_PHYSMASK6", "IA32_MSR_MTRR_PHYSBASE7",
      "IA32_MSR_MTRR_PHYSMASK7", "IA32_MSR_MTRR_FIX64K_00000",
      "IA32_MSR_MTRR_FIX16K_80000", "IA32_MSR_MTRR_FIX16K_A0000",
      "IA32_MSR_MTRR_FIX4K_C0000", "IA32_MSR_MTRR_FIX4K_C8000",
      "IA32_MSR_MTRR_FIX4K_D0000", "IA32_MSR_MTRR_FIX4K_D8000",
      "IA32_MSR_MTRR_FIX4K_E0000", "IA32_MSR_MTRR_FIX4K_E8000",
      "IA32_MSR_MTRR_FIX4K_F0000", "IA32_MSR_MTRR_FIX4K_F8000",
      "IA32_MSR_TSC_AUX", "IA32_MSR_DEBUG_CTL", "HV_X64_MSR_GUEST_OS_ID",
      "HV_X64_MSR_SINT0", "HV_X64_MSR_SINT1", "HV_X64_MSR_SINT2",
      "HV_X64_MSR_SINT3", "HV_X64_MSR_SINT4", "HV_X64_MSR_SINT5",
      "HV_X64_MSR_SINT6", "HV_X64_MSR_SINT7", "HV_X64_MSR_SINT8",
      "HV_X64_MSR_SINT9", "HV_X64_MSR_SINT10", "HV_X64_MSR_SINT11",
      "HV_X64_MSR_SINT12", "HV_X64_MSR_SINT13", "HV_X64_MSR_SINT14",
      "HV_X64_MSR_SINT15", "HV_X64_MSR_SCONTROL", "HV_X64_MSR_SIEFP",
      "HV_X64_MSR_SIMP", "HV_X64_MSR_REFERENCE_TSC", "HV_X64_MSR_EOM"
    >>

\* Largest number of entries an MsrList holds.
MsrListCapacity == 256

\* MsrList::from_entries: the length field and the copied entries, or an
\* error when the entries exceed the capacity of the list.
from_entries(entries) ==
    IF Len(entries) > MsrListCapacity THEN Err("SizeLimitExceeded")
    ELSE Ok([nmsrs |-> Len(entries),
             indices |-> [i \in 1..Len(entries) |-> MsrIndex(entries[i])]])

\* Result::unwrap(): the value of an Ok, a panic on an Err.
Panic == [kind |-> "Panic", val |-> NoFd, err |-> "none"]
unwrap(r) == IF r.kind = "Ok" THEN Ok(r.val) ELSE Panic

\* get_msr_index_list(&self), compiled for x86_64 only.
get_msr_index_list_ViaIoctl(t) ==
    /\ arch = "x86_64"
    /\ pc[t] = "idle"
    /\ hv[t] # NoFd
    /\ \E r \in StatusResponses(hv[t]) :
        /\ calls' = [calls EXCEPT ![t] =
                <<SysCall("GET_MSR_INDEX_LIST", hv[t], "none", r)>>]
        /\ result' = [result EXCEPT ![t] =
                IF IoctlOk(r.ret) THEN unwrap(from_entries(MsrEntries))
                ELSE Err(r.errno)]
    /\ fn' = [fn EXCEPT ![t] = "get_msr_index_list"]
    /\ UNCHANGED <<arch, hostProps, args, close_on_exec, kernelVars, hv, handles, pc, vm_type, vm>>

get_msr_index_list(t) ==
    /\ arch = "x86_64"
    /\ pc[t] = "idle"
    /\ hv[t] # NoFd
    /\ result' = [result EXCEPT ![t] = unwrap(from_entries(MsrEntries))]
    /\ calls' = [calls EXCEPT ![t] = <<>>]
    /\ fn' = [fn EXCEPT ![t] = "get_msr_index_list"]
    /\ UNCHANGED <<arch, hostProps, args, close_on_exec, kernelVars, hv, handles, pc, vm_type, vm>>

\* ---------------------------------------------------------- specification
\* Spec: both callers run the partition factory concurrently, each on its own
\* session; the kernel interleaves their control calls.
Next ==
    \E t \in Threads :
        \/ Mshv_new(t)
        \/ \E vmt \in VmTypes : create_vm_with_type(t, vmt)
        \/ SetPropertyStep(t)
        \/ InitializeStep(t)
        \/ \E fd \in Fds : drop_vm(t, fd)
        \/ drop_mshv(t)

Spec == Init /\ [][Next]_vars

\* SpecApi: one caller uses every operation of the public surface.
NextApi ==
    \/ Mshv_new(1)
    \/ \E a \in CallerArgs : create_vm_with_args(1, a)
    \/ \E vmt \in VmTypes : create_vm_with_type(1, vmt)
    \/ create_vm(1)
    \/ SetPropertyStep(1)
    \/ InitializeStep(1)
    \/ \E code \in PropertyCodes : get_host_partition_property(1, code)
    \/ get_msr_index_list(1)
    \/ \E fd \in Fds : drop_vm(1, fd)
    \/ drop_mshv(1)

SpecApi == Init /\ [][NextApi]_vars

\* SpecOwn: two sessions in one process; caller 1 uses every operation that
\* creates or drops a handle, caller 2 opens and drops the other session.
NextOwn ==
    \/ \E t \in Threads : Mshv_new(t) \/ drop_mshv(t)
    \/ \E a \in CallerArgs : create_vm_with_args(1, a)
    \/ \E vmt \in VmTypes : create_vm_with_type(1, vmt)
    \/ create_vm(1)
    \/ SetPropertyStep(1)
    \/ InitializeStep(1)
    \/ \E fd \in Fds : drop_vm(1, fd)

SpecOwn == Init /\ [][NextOwn]_vars

\* SpecOpen: both callers open the device, raw or as a session, and drop sessions.
NextOpen ==
    \E t \in Threads :
        \/ Mshv_new(t)
        \/ \E coe \in BOOLEAN : open_with_cloexec(t, coe)
        \/ drop_mshv(t)

SpecOpen == Init /\ [][NextOpen]_vars

\* create_vm run by caller 1 beside create_vm_with_type run by caller 2,
\* each on its own session, under every interleaving and every answer of
\* the kernel.
NextTwin ==
    \/ \E t \in Threads : Mshv_new(t)
    \/ create_vm(1)
    \/ \E vmt \in VmTypes : create_vm_with_type(2, vmt)
    \/ \E t \in Threads : SetPropertyStep(t)
    \/ \E t \in Threads : InitializeStep(t)

SpecTwin == Init /\ [][NextTwin]_vars

\* ================================================================ claims
\* The invocation caller t is in, or returned from last, is the factory.
InFactory(t) == fn[t] \in {"create_vm_with_type", "create_vm"}
Returned(t) == pc[t] = "idle"
Idx(t, op) == {i \in 1..Len(calls[t]) : calls[t][i].op = op}
CreateIdx(t) == Idx(t, "MSHV_CREATE_PARTITION")
SetIdx(t) == Idx(t, "SET_PARTITION_PROPERTY")
InitIdx(t) == Idx(t, "INITIALIZE_PARTITION")
FailedAt(t, i) == i \in 1..Len(calls[t]) /\ calls[t][i].ret < 0

\* C1: in create_vm_with_type every property-set call sets the
\* SYNTHETIC_PROC_FEATURES code on the partition the creation call returned,
\* comes after the successful creation call and before any initialize call;
\* no initialize call is issued without it; an Ok return has seen exactly one.
C1_SetPropertyBetweenCreateAndInitialize ==
    \A t \in Threads : InFactory(t) =>
        /\ \A i \in SetIdx(t) :
            /\ calls[t][i].arg.code = SYNTHETIC_PROC_FEATURES
            /\ \E j \in CreateIdx(t) :
                j < i /\ calls[t][j].ret >= 0 /\ calls[t][i].fd = calls[t][j].ret
            /\ \A k \in InitIdx(t) : i < k
        /\ \A k \in InitIdx(t) : \E i \in SetIdx(t) : i < k
        /\ (Returned(t) /\ result[t].kind = "Ok") => Cardinality(SetIdx(t)) = 1

C1_Witness ==
    \E t \in Threads :
        /\ InFactory(t) /\ Returned(t) /\ result[t].kind = "Ok"
        /\ SetIdx(t) # {} /\ InitIdx(t) # {}

\* C2: when the creation call of create_vm_with_type answers a negative
\* status, the function has returned that OS error, holds no partition
\* handle, and issued neither a property-set nor an initialize call.
C2_CreateFailurePropagates ==
    \A t \in Threads : (InFactory(t) /\ FailedAt(t, 1)) =>
        /\ Returned(t)
        /\ result[t] = Err(calls[t][1].errno)
        /\ vm[t] = NoFd
        /\ \A fd \in handles[t] : fd \in Fds /\ fdKind[fd] = "partition"
        /\ SetIdx(t) = {} /\ InitIdx(t) = {}
        /\ Len(calls[t]) = 1

C2_Witness ==
    \E t \in Threads :
        /\ InFactory(t) /\ FailedAt(t, 1) /\ result[t].kind = "Err"
        /\ FdOpen(hv[t])

\* C3: the creation request of create_vm_with_type has exactly the LAPIC,
\* X2APIC and GPA_SUPER_PAGES flag bits, for every vm_type, and isolation SNP
\* for vm_type Snp and NONE otherwise.
C3_CreationRequestFromVmType ==
    \A t \in Threads : InFactory(t) =>
        \A i \in CreateIdx(t) :
            /\ OnesOf(calls[t][i].arg.pt_flags) =
                    {MSHV_PT_BIT_LAPIC, MSHV_PT_BIT_X2APIC,
                     MSHV_PT_BIT_GPA_SUPER_PAGES}
            /\ vm_type[t] = "Snp" =>
                    calls[t][i].arg.pt_isolation = MSHV_PT_ISOLATION_SNP
            /\ vm_type[t] # "Snp" =>
                    calls[t][i].arg.pt_isolation = MSHV_PT_ISOLATION_NONE

C3_Witness ==
    \E t \in Threads :
        /\ InFactory(t) /\ vm_type[t] = "Snp" /\ CreateIdx(t) # {}
        /\ calls[t][1].arg.pt_isolation = MSHV_PT_ISOLATION_SNP

\* The capability bits the documentation lists, by build target.
DocumentedFeatures(a) ==
    {"hypervisor_present", "hv1", "access_partition_reference_counter",
     "access_synic_regs", "access_synthetic_timer_regs",
     "access_partition_reference_tsc", "access_frequency_regs",
     "access_intr_ctrl_regs", "access_vp_index", "access_hypercall_regs",
     "tb_flush_hypercalls", "synthetic_cluster_ipi", "direct_synthetic_timers"}
    \cup (IF a = "aarch64" THEN {} ELSE {"access_guest_idle_reg"})

\* C4: the value of the property-set call has a bit set exactly where a
\* documented capability lives (guest-idle only off aarch64), whatever the
\* vm_type.
C4_FeatureMaskIsDocumentedBits ==
    \A t \in Threads : InFactory(t) =>
        \A i \in SetIdx(t) :
            OnesOf(calls[t][i].arg.value) =
                {FeatureBit(n) : n \in DocumentedFeatures(arch)}

C4_Witness ==
    \E t \in Threads :
        /\ InFactory(t) /\ vm_type[t] = "Snp" /\ SetIdx(t) # {}
        /\ arch = "aarch64"
        /\ \A i \in SetIdx(t) :
            calls[t][i].arg.value[FeatureBit("access_guest_idle_reg")] = 0

PopCount(v) == Cardinality(OnesOf(v))

\* C5 as stated: the feature mask has exactly thirteen bits set.
C5_ThirteenBits ==
    \A t \in Threads : InFactory(t) =>
        \A i \in SetIdx(t) : PopCount(calls[t][i].arg.value) = 13

\* C5 amended: the feature mask has exactly fourteen bits set on every build
\* target except aarch64, where it has exactly thirteen.
C5_FourteenBitsThirteenOnAarch64 ==
    \A t \in Threads : InFactory(t) =>
        \A i \in SetIdx(t) :
            PopCount(calls[t][i].arg.value) = IF arch = "aarch64" THEN 13 ELSE 14

C5_Witness ==
    \E t \in Threads :
        /\ InFactory(t) /\ arch = "x86_64" /\ SetIdx(t) # {}
        /\ \E i \in SetIdx(t) : PopCount(calls[t][i].arg.value) = 14

\* The partition descriptor the current factory invocation of t obtained.
Created(t) == calls[t][1].ret
CreatedOk(t) == InFactory(t) /\ Len(calls[t]) >= 1 /\ calls[t][1].ret >= 0
Owned(fd) == \E u \in Threads : fd \in handles[u] \/ vm[u] = fd

\* C6: a failed property-set call makes create_vm_with_type return that error
\* without issuing initialize; a failed initialize call makes it return that
\* error; either way the caller gets the error and no partition handle.
C6_LaterFailureAbortsWithError ==
    \A t \in Threads : InFactory(t) =>
        /\ \A i \in SetIdx(t) : FailedAt(t, i) =>
            /\ Returned(t) /\ result[t] = Err(calls[t][i].errno)
            /\ InitIdx(t) = {}
            /\ ~Owned(Created(t))
        /\ \A k \in InitIdx(t) : FailedAt(t, k) =>
            /\ Returned(t) /\ result[t] = Err(calls[t][k].errno)
            /\ ~Owned(Created(t))

C6_Witness ==
    \E t \in Threads :
        /\ InFactory(t) /\ result[t].kind = "Err"
        /\ \E k \in InitIdx(t) : FailedAt(t, k)
        /\ \E u \in Threads : InFactory(u) /\ \E i \in SetIdx(u) : FailedAt(u, i)

\* Initialization failed after creation and configuration succeeded.
InitFailedAfterConfigured(t) ==
    /\ CreatedOk(t)
    /\ \E i \in SetIdx(t) : ~FailedAt(t, i)
    /\ \E k \in InitIdx(t) : FailedAt(t, k)

\* C7 as stated: when initialization fails after creation and configuration
\* succeeded, the caller owns the partially-built handle, still to be released.
C7_CallerOwnsHandleAfterInitFailure ==
    \A t \in Threads : InitFailedAfterConfigured(t) =>
        /\ Created(t) \in handles[t]
        /\ fdState[Created(t)] = "open"

\* C7 amended: when initialization fails after creation and configuration
\* succeeded, the handle is not transferred: the caller receives only the
\* error, no caller owns the descriptor, and the function has released it.
C7_HandleReleasedNotTransferred ==
    \A t \in Threads : InitFailedAfterConfigured(t) =>
        /\ result[t].kind = "Err" /\ result[t].val = NoFd
        /\ ~Owned(Created(t))
        /\ fdState[Created(t)] = "closed"

C7_Witness ==
    \E t \in Threads :
        /\ InitFailedAfterConfigured(t) /\ Returned(t)
        /\ fdState[Created(t)] = "closed"

\* C8: once create_vm_with_type has returned an error after a successful
\* creation call, the created descriptor has been closed exactly once; and
\* every open partition descriptor has an owner.
C8_FailedFactoryClosesDescriptorOnce ==
    /\ \A t \in Threads :
        (CreatedOk(t) /\ Returned(t) /\ result[t].kind = "Err") =>
            /\ closeCount[Created(t)] = 1
            /\ fdState[Created(t)] = "closed"
    /\ \A fd \in Fds :
        (fdState[fd] = "open" /\ fdKind[fd] = "partition") => Owned(fd)

C8_Witness ==
    \E t \in Threads :
        /\ CreatedOk(t) /\ Returned(t) /\ result[t].kind = "Err"
        /\ \E i \in SetIdx(t) : FailedAt(t, i)
        /\ closeCount[Created(t)] = 1

\* C9: one create_vm_with_type invocation issues each of the creation,
\* property-set and initialize calls at most once; one create_vm_with_args or
\* get_host_partition_property invocation issues exactly one control call,
\* whether the call succeeds or fails.
C9_NoCallReissued ==
    \A t \in Threads :
        /\ InFactory(t) =>
            /\ Cardinality(CreateIdx(t)) <= 1
            /\ Cardinality(SetIdx(t)) <= 1
            /\ Cardinality(InitIdx(t)) <= 1
        /\ fn[t] = "create_vm_with_args" =>
            Len(calls[t]) = 1 /\ CreateIdx(t) = {1}
        /\ fn[t] = "get_host_partition_property" =>
            Len(calls[t]) = 1 /\ Idx(t, "MSHV_GET_HOST_PARTITION_PROPERTY") = {1}

C9_Witness ==
    \E t \in Threads :
        /\ fn[t] = "get_host_partition_property"
        /\ FailedAt(t, 1) /\ result[t].kind = "Err"

\* C10: get_msr_index_list returns a list whose length field is 64, with 64
\* entries, among which IA32_MSR_SYSENTER_CS occurs exactly once.
C10_MsrListHas64EntriesOneSysenterCs ==
    \A t \in Threads :
        (fn[t] = "get_msr_index_list" /\ result[t].kind = "Ok") =>
            /\ result[t].val.nmsrs = 64
            /\ Len(result[t].val.indices) = 64
            /\ Cardinality({i \in DOMAIN result[t].val.indices :
                    result[t].val.indices[i] = MsrIndex("IA32_MSR_SYSENTER_CS")}) = 1

C10_Witness ==
    \E t \in Threads :
        /\ fn[t] = "get_msr_index_list" /\ result[t].kind = "Ok"
        /\ result[t].val.indices[6] = MsrIndex("IA32_MSR_SYSENTER_CS")

\* The last invocation of t was a host property query for this code.
Queried(t) == fn[t] = "get_host_partition_property"
QueriedCode(t) == calls[t][1].arg
Accepted(code) == hostProps[code] >= 0

\* A step in which t runs get_host_partition_property.
QueryStep(t) ==
    /\ fn'[t] = "get_host_partition_property"
    /\ \/ fn[t] # "get_host_partition_property"
       \/ result'[t] # result[t]
       \/ calls'[t][1].arg # calls[t][1].arg

\* C11: a query for a code the host accepts returns Ok with the host's value;
\* two queries in a row for the same accepted code return the same value; a
\* query changes nothing of the session, the descriptors or any partition.
C11_HostPropertyStableAndReadOnly ==
    /\ [](\A t \in Threads : (Queried(t) /\ Accepted(QueriedCode(t))) =>
            result[t] = Ok(hostProps[QueriedCode(t)]))
    /\ [][\A t \in Threads :
            /\ (Queried(t) /\ fn'[t] = "get_host_partition_property"
                /\ calls'[t][1].arg = QueriedCode(t) /\ Accepted(QueriedCode(t)))
                    => result'[t] = result[t]
            /\ QueryStep(t) =>
                UNCHANGED <<hostProps, kernelVars, hv, handles, pc, vm, vm_type>>
       ]_vars

C11_Witness ==
    \E t \in Threads :
        /\ Queried(t) /\ Accepted(QueriedCode(t))
        /\ result[t] = Ok(48)
        /\ \E fd \in handles[t] : FdOpen(fd)

\* C12: get_host_partition_property returns the OS error exactly when the
\* control call answers a negative status, and otherwise Ok with exactly the
\* value the call answered, zero included.
C12_PropertyResultFollowsStatus ==
    \A t \in Threads : Queried(t) =>
        /\ result[t].kind = "Err" <=> calls[t][1].ret < 0
        /\ calls[t][1].ret < 0 => result[t] = Err(calls[t][1].errno)
        /\ calls[t][1].ret >= 0 => result[t] = Ok(calls[t][1].ret)

C12_Witness ==
    \E t \in Threads :
        Queried(t) /\ calls[t][1].ret = 0 /\ result[t] = Ok(0)

\* The handles (session, factory local, caller-owned VmFd) wrapping fd.
Owners(fd) ==
    {<<"hv", u>> : u \in {x \in Threads : hv[x] = fd}}
    \cup {<<"vm", u>> : u \in {x \in Threads : vm[x] = fd}}
    \cup {<<"VmFd", u>> : u \in {x \in Threads : fd \in handles[x]}}

\* C13: every descriptor has at most one owning handle and is closed at most
\* once; no system call is issued on a closed descriptor; every handle held
\* wraps an open descriptor; two sessions hold distinct descriptors, so that
\* dropping one leaves the other open.
C13_SingleOwnerNoDoubleCloseNoUseAfterClose ==
    /\ \A fd \in Fds : Cardinality(Owners(fd)) <= 1 /\ closeCount[fd] <= 1
    /\ \A fd \in Fds : Owners(fd) # {} => fdState[fd] = "open"
    /\ \A t \in Threads :
        /\ \A i \in 1..Len(calls[t]) : calls[t][i].errno # "EBADF"
        /\ hv[t] \in Fds \cup {NoFd}
        /\ handles[t] \subseteq Fds
        /\ \A u \in Threads \ {t} : hv[t] # NoFd => hv[u] # hv[t]

C13_Witness ==
    /\ hv[2] = NoFd /\ fn[2] = "new" /\ result[2].kind = "Ok"
    /\ fdState[result[2].val] = "closed"
    /\ FdOpen(hv[1])
    /\ \E h \in handles[1] : h > result[2].val /\ FdOpen(h)

FactoryOrder == <<"CREATE_PARTITION", "SET_PARTITION_PROPERTY", "INITIALIZE_PARTITION">>

\* C14: with both callers inside create_vm_with_type at once, every partition
\* has received a prefix of create, set-property, initialize, all from the
\* invocation that created it, and every property-set and initialize call of
\* an invocation went to the partition that invocation created.
C14_ConcurrentFactoriesDoNotInterfere ==
    /\ \A fd \in Fds :
        /\ Len(partCalls[fd]) <= 3
        /\ \A i \in 1..Len(partCalls[fd]) :
            /\ partCalls[fd][i].op = FactoryOrder[i]
            /\ partCalls[fd][i].fd = fd
            /\ partCalls[fd][i].by = partCalls[fd][1].by
    /\ \A t \in Threads : InFactory(t) =>
        /\ \A i \in SetIdx(t) \cup InitIdx(t) :
            calls[t][i].fd = Created(t) /\ Created(t) >= 0
        /\ vm[t] # NoFd => (vm[t] = Created(t) /\ partCalls[vm[t]][1].by = t)
    /\ \A t \in Threads : \A u \in Threads \ {t} :
        vm[t] # NoFd => vm[u] # vm[t]

C14_Witness ==
    /\ pc[1] = "initialize" /\ pc[2] = "initialize"
    /\ vm[1] > vm[2]
    /\ Len(partCalls[vm[1]]) = 2 /\ Len(partCalls[vm[2]]) = 2
    /\ hv[1] < hv[2]

ListedMsrs(t) == fn[t] = "get_msr_index_list"

\* C15: get_msr_index_list issues no system call, returns Ok (no error, no
\* panic), leaves the session, the descriptors and every partition as they
\* were, and a call that follows another returns the same list, whatever was
\* done to the session before.
C15_MsrListPureAndInfallible ==
    /\ [](\A t \in Threads : ListedMsrs(t) =>
            calls[t] = <<>> /\ result[t].kind = "Ok")
    /\ [][\A t \in Threads :
            /\ (ListedMsrs(t) /\ fn'[t] = "get_msr_index_list")
                    => result'[t] = result[t]
            /\ (~ListedMsrs(t) /\ fn'[t] = "get_msr_index_list")
                    => UNCHANGED <<hostProps, kernelVars, hv, handles, pc, vm, vm_type>>
       ]_vars

C15_Witness ==
    \E t \in Threads :
        /\ ListedMsrs(t) /\ result[t].kind = "Ok"
        /\ \E fd \in handles[t] : Len(partCalls[fd]) = 3
        /\ \E fd \in Fds : fdKind[fd] = "partition" /\ fdState[fd] = "closed"

\* C16: open_with_cloexec issues one open with O_NONBLOCK, and with O_CLOEXEC
\* exactly when close_on_exec is true; it returns the descriptor of a
\* non-negative answer and the OS error of a negative one. Mshv::new opens
\* with O_NONBLOCK and O_CLOEXEC, and after a failed open it has returned the
\* error and the caller holds no session.
C16_OpenFlagsAndResult ==
    \A t \in Threads :
        /\ fn[t] = "open_with_cloexec" =>
            /\ Len(calls[t]) = 1 /\ calls[t][1].op = "open"
            /\ O_NONBLOCK \in calls[t][1].arg
            /\ O_CLOEXEC \in calls[t][1].arg <=> close_on_exec[t]
            /\ calls[t][1].ret >= 0 =>
                /\ result[t] = Ok(calls[t][1].ret)
                /\ fdFlags[calls[t][1].ret] = calls[t][1].arg
            /\ calls[t][1].ret < 0 => result[t] = Err(calls[t][1].errno)
        /\ fn[t] = "new" =>
            /\ Len(calls[t]) = 1 /\ calls[t][1].op = "open"
            /\ calls[t][1].arg = {O_NONBLOCK, O_CLOEXEC}
            /\ calls[t][1].ret < 0 =>
                (result[t] = Err(calls[t][1].errno) /\ hv[t] = NoFd)
            /\ calls[t][1].ret >= 0 =>
                (result[t] = Ok(calls[t][1].ret) /\ hv[t] \in {calls[t][1].ret, NoFd})

C16_Witness ==
    \E t \in Threads :
        /\ fn[t] = "open_with_cloexec" /\ ~close_on_exec[t]
        /\ result[t].kind = "Ok" /\ fdFlags[result[t].val] = {O_NONBLOCK}
        /\ hv[t] # NoFd /\ fdFlags[hv[t]] = {O_NONBLOCK, O_CLOEXEC}

\* The lifecycle state of the partition behind descriptor fd, from the
\* control calls the kernel has accepted on it since its creation.
OpsReceived(fd) == [i \in 1..Len(partCalls[fd]) |-> partCalls[fd][i].op]

PartitionState(fd) ==
    CASE OpsReceived(fd) = <<"CREATE_PARTITION">> -> "Created"
      [] OpsReceived(fd) = <<"CREATE_PARTITION", "SET_PARTITION_PROPERTY">>
            -> "Configured"
      [] OpsReceived(fd) = <<"CREATE_PARTITION", "SET_PARTITION_PROPERTY",
                             "INITIALIZE_PARTITION">> -> "Initialized"
      [] OTHER -> "None"

OpsIssued(t) == [i \in 1..Len(calls[t]) |-> calls[t][i].op]

\* C17: create_vm_with_type and create_vm return Ok exactly when the
\* creation, property-set and initialize calls were issued in that order and
\* all succeeded; the handle of an Ok is the created descriptor, has had the
\* synthetic feature mask set on it, and is Initialized, never Created or
\* Configured.
C17_OkOnlyWhenInitialized ==
    \A t \in Threads : (InFactory(t) /\ Returned(t)) =>
        /\ result[t].kind \in {"Ok", "Err"}
        /\ result[t].kind = "Ok" <=>
            /\ OpsIssued(t) = <<"MSHV_CREATE_PARTITION", "SET_PARTITION_PROPERTY",
                                "INITIALIZE_PARTITION">>
            /\ \A i \in 1..Len(calls[t]) : calls[t][i].ret >= 0
        /\ result[t].kind = "Ok" =>
            /\ result[t].val = calls[t][1].ret
            /\ calls[t][2].fd = result[t].val
            /\ calls[t][3].fd = result[t].val
            /\ calls[t][2].arg.code = SYNTHETIC_PROC_FEATURES
            /\ OnesOf(calls[t][2].arg.value) = OnesOf(features(arch))
            /\ result[t].val \in handles[t] =>
                    PartitionState(result[t].val) = "Initialized"

C17_Witness ==
    \E t \in Threads :
        /\ fn[t] = "create_vm" /\ Returned(t) /\ result[t].kind = "Ok"
        /\ result[t].val \in handles[t]
        /\ PartitionState(result[t].val) = "Initialized"

CalledWithArgs(t) == fn[t] = "create_vm_with_args"

\* A step in which caller t's create_vm_with_args ran.
WithArgsStep(t) ==
    /\ fn'[t] = "create_vm_with_args"
    /\ fn[t] # fn'[t] \/ calls'[t] # calls[t]

\* C18: create_vm_with_args issues the creation call alone, carrying the
\* caller's request as given; a non-negative answer is returned as Ok and
\* exactly that descriptor joins the caller's handles, in state Created; a
\* negative answer is returned as the OS error and no descriptor is adopted;
\* neither a property-set nor an initialize call is issued.
C18_WithArgsCreatesOnly ==
    /\ [](\A t \in Threads : CalledWithArgs(t) =>
            /\ OpsIssued(t) = <<"MSHV_CREATE_PARTITION">>
            /\ calls[t][1].arg.pt_isolation = args[t].pt_isolation
            /\ OnesOf(calls[t][1].arg.pt_flags) = OnesOf(args[t].pt_flags)
            /\ calls[t][1].ret >= 0 =>
                /\ result[t] = Ok(calls[t][1].ret)
                /\ calls[t][1].ret \in handles[t] =>
                        PartitionState(calls[t][1].ret) = "Created"
            /\ calls[t][1].ret < 0 => result[t] = Err(calls[t][1].errno))
    /\ [][\A t \in Threads : WithArgsStep(t) =>
            /\ handles'[t] = IF calls'[t][1].ret >= 0
                             THEN handles[t] \cup {calls'[t][1].ret}
                             ELSE handles[t]
            /\ calls'[t][1].ret >= 0 =>
                    /\ calls'[t][1].ret \notin handles[t]
                    /\ fdState[calls'[t][1].ret] = "unused"
                    /\ fdState'[calls'[t][1].ret] = "open"
            /\ UNCHANGED <<pc, vm, hv>>
       ]_vars

C18_Witness ==
    \E t \in Threads :
        /\ CalledWithArgs(t) /\ result[t].kind = "Ok"
        /\ args[t] = create_args("Snp")
        /\ result[t].val \in handles[t]
        /\ PartitionState(result[t].val) = "Created"
        /\ \E fd \in handles[t] : PartitionState(fd) = "Initialized"

\* What the kernel answered to a control call: success or which error.
Answer(c) == <<c.ret >= 0, c.errno>>

\* The kernel answered the first k calls of both callers alike.
Agree(k) == \A j \in 1..k : Answer(calls[1][j]) = Answer(calls[2][j])

ShorterLog == IF Len(calls[1]) <= Len(calls[2]) THEN Len(calls[1]) ELSE Len(calls[2])

TwinRuns ==
    /\ fn[1] = "create_vm"
    /\ fn[2] = "create_vm_with_type" /\ vm_type[2] = "Normal"

\* C19: create_vm and create_vm_with_type(Normal), given the same answers by
\* the kernel, issue the same control calls with the same payloads in the
\* same order and return the same result (Ok with the created handle, or
\* the same error).
C19_CreateVmIsWithTypeNormal ==
    TwinRuns =>
        /\ \A i \in 1..ShorterLog : Agree(i - 1) =>
                /\ calls[1][i].op = calls[2][i].op
                /\ calls[1][i].arg = calls[2][i].arg
        /\ calls[1] # <<>> =>
                /\ calls[1][1].arg.pt_isolation = MSHV_PT_ISOLATION_NONE
                /\ OnesOf(calls[1][1].arg.pt_flags) = OnesOf(pt_flags)
        /\ (Agree(ShorterLog) /\ Returned(1) /\ Returned(2)) =>
                /\ Len(calls[1]) = Len(calls[2])
                /\ result[1].kind = result[2].kind
                /\ result[1].err = result[2].err
                /\ result[1].kind = "Ok" =>
                        /\ result[1].val = calls[1][1].ret
                        /\ result[2].val = calls[2][1].ret

C19_Witness ==
    /\ TwinRuns /\ Returned(1) /\ Returned(2)
    /\ Len(calls[1]) = 3 /\ Len(calls[2]) = 3 /\ Agree(3)
    /\ result[1].kind = "Ok" /\ result[2].kind = "Ok"

\* The identifiers a returned list holds.
Listed(t) == {result[t].val.indices[i] : i \in DOMAIN result[t].val.indices}

SynicMsrs ==
    {"HV_X64_MSR_SINT0", "HV_X64_MSR_SINT1", "HV_X64_MSR_SINT2",
     "HV_X64_MSR_SINT3", "HV_X64_MSR_SINT4", "HV_X64_MSR_SINT5",
     "HV_X64_MSR_SINT6", "HV_X64_MSR_SINT7", "HV_X64_MSR_SINT8",
     "HV_X64_MSR_SINT9", "HV_X64_MSR_SINT10", "HV_X64_MSR_SINT11",
     "HV_X64_MSR_SINT12", "HV_X64_MSR_SINT13", "HV_X64_MSR_SINT14",
     "HV_X64_MSR_SINT15", "HV_X64_MSR_SCONTROL", "HV_X64_MSR_SIEFP",
     "HV_X64_MSR_SIMP", "HV_X64_MSR_REFERENCE_TSC", "HV_X64_MSR_EOM"}

ExcludedMsrs ==
    {"IA32_MSR_BNDCFGS", "IA32_MSR_SPEC_CTRL", "IA32_MSR_TSC_ADJUST"}

\* C20: the list get_msr_index_list returns holds no identifier twice, holds
\* SINT0 to SINT15, SCONTROL, SIEFP, SIMP, REFERENCE_TSC and EOM, and holds
\* none of BNDCFGS, SPEC_CTRL and TSC_ADJUST.
C20_MsrListCurated ==
    \A t \in Threads :
        (ListedMsrs(t) /\ result[t].kind = "Ok") =>
            /\ Cardinality(Listed(t)) = Len(result[t].val.indices)
            /\ \A n \in SynicMsrs : MsrIndex(n) \in Listed(t)
            /\ \A n \in ExcludedMsrs : MsrIndex(n) \notin Listed(t)

C20_Witness ==
    \E t \in Threads :
        /\ ListedMsrs(t) /\ result[t].kind = "Ok"
        /\ Cardinality(Listed(t)) = 64
        /\ MsrIndex("HV_X64_MSR_SINT15") \in Listed(t)
        /\ hv[t] # NoFd

====
